---------------------------- MODULE Spec2Model ----------------------------
(***************************************************************************)
(* State-machine model of the recovery agent: settings store, network      *)
(* attacher, HTTP handlers (/settings, /ota, /login), session authority    *)
(* and the startup orchestrator.                                           *)
(*                                                                         *)
(* Conventions                                                             *)
(*  - C strings are sequences of character codes; a char buffer is a       *)
(*    sequence that contains the terminating 0 (CStr cuts at the first 0). *)
(*  - esp_timer time is an int64 count of microseconds.  It is kept as a   *)
(*    pair [s, u] (seconds, microseconds 0..999999) so that the 30 day     *)
(*    limit (2 592 000 000 000 us) is compared exactly.                    *)
(*  - Calls into the platform (NVS, WiFi driver, OTA driver, sockets) are  *)
(*    nondeterministic over the results the caller distinguishes.  Calls   *)
(*    whose result the caller never looks at (xTaskCreate, the sending of  *)
(*    a response) and the unregistering of an instance that was just       *)
(*    registered succeed.                                                  *)
(***************************************************************************)
EXTENDS Integers, Sequences, FiniteSets, TLC

(***************************************************************************)
(* Bounds of the model                                                     *)
(***************************************************************************)
\* number of device boots explored (power cycles and restarts)
MaxBoots == 2
\* number of clock advances explored
MaxTicks == 2
\* number of HTTP requests handled
MaxRequests == 2
\* number of consecutive read timeouts of one upload that are counted
MaxTimeouts == 5

(***************************************************************************)
(* Program constants                                                       *)
(***************************************************************************)
SESSION_TOKEN_LEN == 64
COOKIE_BUF_SIZE == 256
US_PER_SEC == 1000000
\* 30 * 24 * 60 * 60 * 1000000LL microseconds, as [s, u]
SESSION_TIMEOUT_US == [s |-> 30 * 24 * 60 * 60, u |-> 0]

(***************************************************************************)
(* Time: int64 microseconds as (seconds, microseconds)                     *)
(***************************************************************************)
T0 == [s |-> 0, u |-> 0]

TimeAdd(a, b) ==
    LET u == a.u + b.u
    IN  [s |-> a.s + b.s + (u \div US_PER_SEC), u |-> u % US_PER_SEC]

\* a - b for a >= b
TimeSub(a, b) ==
    IF a.u >= b.u THEN [s |-> a.s - b.s, u |-> a.u - b.u]
                  ELSE [s |-> a.s - b.s - 1, u |-> a.u + US_PER_SEC - b.u]

TimeGT(a, b) == a.s > b.s \/ (a.s = b.s /\ a.u > b.u)

TimeLE(a, b) == ~TimeGT(a, b)

(***************************************************************************)
(* Strings                                                                 *)
(***************************************************************************)
\* the C string held in a buffer: the characters before the first 0
CStr(buf) ==
    LET z == {i \in 1..Len(buf) : buf[i] = 0}
    IN  IF z = {} THEN buf
        ELSE SubSeq(buf, 1, (CHOOSE i \in z : \A j \in z : i <= j) - 1)

\* strstr(hay, needle) != NULL
StrStr(hay, needle) ==
    \E i \in 0..(Len(hay) - Len(needle)) :
        \A k \in 1..Len(needle) : hay[i + k] = needle[k]

Repeat(c, n) == [i \in 1..n |-> c]

\* "0123456789abcdef"
charset == <<48, 49, 50, 51, 52, 53, 54, 55, 56, 57, 97, 98, 99, 100, 101, 102>>

\* "access_token="
AccessTokenEq == <<97, 99, 99, 101, 115, 115, 95, 116, 111, 107, 101, 110, 61>>


(***************************************************************************)
(* Inputs                                                                  *)
(***************************************************************************)
\* esp_random() streams used to fill one token (values of a uint32 that fit
\* the checker's integers): all 2^31-1, and a counting stream
TokenRndA == [i \in 1..SESSION_TOKEN_LEN |-> 2147483647]
TokenRndB == [i \in 1..SESSION_TOKEN_LEN |-> 1000 + 7 * i]
RndStreams == {TokenRndA, TokenRndB}

\* the token text generate_new_session derives from a stream
TokenOf(rnd) == [i \in 1..SESSION_TOKEN_LEN |-> charset[(rnd[i] % 16) + 1]]

NoHdr == [has |-> FALSE, val |-> <<>>]
Hdr(v) == [has |-> TRUE, val |-> v]

TokenA == TokenOf(TokenRndA)
TokenB == TokenOf(TokenRndB)

\* Cookie headers a client may send, by name: none, the exact cookie of
\* either token, a token among other cookies, a value too long for the 256
\* byte buffer, a token cut by one character
CookieNames == {"none", "exactA", "exactB", "amongB", "longA", "cutA"}

HdrExactA == Hdr(AccessTokenEq \o TokenA)
HdrExactB == Hdr(AccessTokenEq \o TokenB)
HdrAmongB == Hdr(<<97, 61, 98, 59, 32>> \o AccessTokenEq \o TokenB \o <<59, 32, 99, 61, 100>>)
HdrLongA == Hdr(Repeat(120, 200) \o AccessTokenEq \o TokenA)
HdrCutA == Hdr(AccessTokenEq \o SubSeq(TokenA, 1, SESSION_TOKEN_LEN - 1))

CookieHdr(name) ==
    CASE name = "none"   -> NoHdr
      [] name = "exactA" -> HdrExactA
      [] name = "exactB" -> HdrExactB
      [] name = "amongB" -> HdrAmongB
      [] name = "longA"  -> HdrLongA
      [] name = "cutA"   -> HdrCutA

\* CONFIG_APP_MASTER_PASSWORD ("admin") and a provisioned master_pass ("root1")
DEFAULT_MASTER_PASS == <<97, 100, 109, 105, 110>>
ProvisionedPass == <<114, 111, 111, 116, 49>>
Passwords == {DEFAULT_MASTER_PASS, ProvisionedPass}

\* results of one NVS write sequence (open, set, commit): all succeed; nothing
\* is written (open or set failed, or the failed commit wrote nothing); the
\* commit reports failure after the value reached the medium
NvsWriteOutcomes == {"ok", "open_fail", "commit_fail_new"}
NvsReadOutcomes == {"ok", "open_fail"}

\* 30 days in microseconds, as [s, u]
ThirtyDays == [s |-> 2592000, u |-> 0]
OneUs == [s |-> 0, u |-> 1]

\* clock advances: 1 us, 30 days - 1 us, 30 days + 1 us
TickDeltas ==
    { OneUs, TimeSub(ThirtyDays, OneUs), TimeAdd(ThirtyDays, OneUs) }

(***************************************************************************)
(* State                                                                   *)
(***************************************************************************)
VARIABLES
    flash,   \* what survives a reboot: NVS content, boot pointer, OTA slot
    now,     \* esp_timer_get_time(): time since boot
    auth,    \* auth_manager.c statics: s_session_token, s_last_activity_time
    main,    \* app_main / system_setup: position, error, is_connected, bits
    wifi,    \* wifi_manager.c statics and the radio driver's state
    srv,     \* HTTP server: running, registered routes, restart tasks, requests
    ota,     \* the frame of a running ota_post_handler
    obs,     \* observations of the last guard / login / request (history)
    boots,   \* number of boots so far
    ticks    \* number of clock advances so far

vars == <<flash, now, auth, main, wifi, srv, ota, obs, boots, ticks>>

\* the variables only the boot sequence and the request handlers change
progVars == <<main, wifi, ota>>

NoStr == [has |-> FALSE, val |-> <<>>]
Str(v) == [has |-> TRUE, val |-> v]

\* static char s_session_token[65] = {0}; static int64_t s_last_activity_time = 0
AuthRam0 == [s_session_token |-> Repeat(0, SESSION_TOKEN_LEN + 1),
             s_last_activity_time |-> T0]

\* otaHandles: the handles esp_ota_begin has opened and esp_ota_end has not
\* yet released
Srv0 == [up |-> FALSE, routes |-> {}, restartTasks |-> 0, requests |-> 0,
         otaOk |-> FALSE, otaHandles |-> 0]

\* app_main before system_setup; running: the partition the device booted
Main0 == [pc |-> "storage_init", err |-> "ESP_OK", is_connected |-> FALSE,
          bits |-> {}, running |-> "factory"]

\* s_wifi_event_group (created, bits), s_retry_num, the two handler
\* registrations, the netifs, and the driver: mode, started, the station link
\* (idle / connecting / up), a queued STA_START event, whether esp_wifi_stop
\* was called, whether the access point is up; discs: the consecutive
\* STA_DISCONNECTED events sta_event_handler received without a GOT_IP in
\* between, while it is registered
Wifi0 == [evGroup |-> FALSE, evBits |-> {}, s_retry_num |-> 0, discs |-> 0,
          regAny |-> FALSE, regIp |-> FALSE, netifSta |-> FALSE, netifAp |-> FALSE,
          mode |-> "NULL", cfgSsid |-> NoStr, started |-> FALSE, link |-> "idle",
          startEv |-> FALSE, stopCalled |-> FALSE, apUp |-> FALSE]

\* no request is being handled.  top, len: req->content_len, a 32-bit size_t,
\* as its bit 31 and its low 31 bits; remaining: the int of the stream loop;
\* peer: what the client of the request being handled does with its
\* connection (sending, silent, closed)
Ota0 == [pc |-> "idle", top |-> 0, len |-> 0, remaining |-> 0, good |-> FALSE,
         handle |-> FALSE, passed |-> FALSE, bootPre |-> "factory",
         peer |-> "sending"]

\* obs.last observes the step that produced the current state: which handler
\* ran, its result, and its inputs (name of the Cookie header, NVS result);
\* the state before it and after it are the two states of the step.  Any
\* other step resets it to NoOp.
\* first: no login or guard ran between auth_manager_init and this call.
\* passed: the request would pass auth_guard in the state it arrived in.
\* ends: the calls of esp_ota_end the step made.
\* kind, ssid, pass: the body of a POST /settings request (creds: it held
\* the two strings).
\* mounts, erases: the calls of nvs_flash_init and nvs_flash_erase the step
\* made.
\* calls: the responses a handler step sent and its calls of trigger_restart,
\* in order.
NoOp == [op |-> "none", ret |-> "none", status |-> 0, io |-> "none",
         calls |-> <<>>,
         hdr |-> "none", first |-> FALSE, passed |-> FALSE, ends |-> 0,
         kind |-> "none", ssid |-> <<>>, pass |-> <<>>,
         mounts |-> 0, erases |-> 0]
\* issued: the token of the most recent Set-Cookie (kept across boots);
\* used: a login or guard ran since auth_manager_init;
\* timeouts: the consecutive HTTPD_SOCK_ERR_TIMEOUT results the running
\* ota_post_handler has met (counted up to MaxTimeouts);
\* expired: the token of the session auth_guard invalidated for its timeout,
\* until a login issues the next token (kept across boots)
Obs0 == [last |-> NoOp, issued |-> NoStr, used |-> FALSE, timeouts |-> 0,
         expired |-> NoStr]

(***************************************************************************)
(* storage_manager.c: session token                                        *)
(***************************************************************************)
\* storage_set_session_token(token): the NVS content afterwards
StorageSetSessionToken(fl, token, outcome) ==
    IF outcome \in {"ok", "commit_fail_new"}
    THEN [fl EXCEPT !.token = Str(token)]
    ELSE fl

\* storage_get_session_token(buf, max_len) via nvs_read_str_helper:
\* [err, buf]; buf is written only on ESP_OK
StorageGetSessionToken(fl, buf, max_len, outcome) ==
    IF outcome = "open_fail" THEN [err |-> "ESP_FAIL", buf |-> buf]
    ELSE IF ~fl.token.has THEN [err |-> "ESP_ERR_NVS_NOT_FOUND", buf |-> buf]
    ELSE IF Len(fl.token.val) + 1 > max_len
         THEN [err |-> "ESP_ERR_NVS_INVALID_LENGTH", buf |-> buf]
    ELSE [err |-> "ESP_OK",
          buf |-> fl.token.val \o <<0>>
                  \o SubSeq(buf, Len(fl.token.val) + 2, Len(buf))]

\* storage_get_master_password: the stored key, else the build-time default
StorageGetMasterPassword(fl, outcome) ==
    IF outcome = "open_fail" \/ ~fl.master.has THEN DEFAULT_MASTER_PASS
    ELSE fl.master.val

(***************************************************************************)
(* auth_manager.c                                                          *)
(***************************************************************************)
\* generate_new_session(): [ram, flash] afterwards.  The result of
\* storage_set_session_token is not looked at.
generate_new_session(ram, fl, t, rnd, outcome) ==
    LET tok == TokenOf(rnd)
    IN  [ram |-> [s_session_token |-> tok \o <<0>>,
                  s_last_activity_time |-> t],
         flash |-> StorageSetSessionToken(fl, tok, outcome)]

\* (now - s_last_activity_time) > SESSION_TIMEOUT_US
SessionTimedOut(t, last) == TimeGT(TimeSub(t, last), SESSION_TIMEOUT_US)

\* httpd_req_get_hdr_value_str(req, "Cookie", cookie_buf, sizeof(cookie_buf)):
\* ESP_OK only when the header exists and its value fits with the final 0
GetCookieHdr(hdr) ==
    IF ~hdr.has THEN [err |-> "ESP_ERR_NOT_FOUND", buf |-> <<>>]
    ELSE IF Len(hdr.val) + 1 > COOKIE_BUF_SIZE
         THEN [err |-> "ESP_ERR_HTTPD_RESULT_TRUNC", buf |-> <<>>]
    ELSE [err |-> "ESP_OK", buf |-> hdr.val]

\* auth_guard without the timeout check of lines 48-54
auth_guard_no_timeout(ram, t, hdr) ==
    IF ram.s_session_token[1] = 0
    THEN [ret |-> "ESP_FAIL", msg |-> "No active session", ram |-> ram]
    ELSE IF GetCookieHdr(hdr).err # "ESP_OK"
    THEN [ret |-> "ESP_FAIL", msg |-> "Missing Cookie Header", ram |-> ram]
    ELSE IF StrStr(GetCookieHdr(hdr).buf, CStr(ram.s_session_token))
    THEN [ret |-> "ESP_OK", msg |-> "",
          ram |-> [ram EXCEPT !.s_last_activity_time = t]]
    ELSE [ret |-> "ESP_FAIL", msg |-> "Invalid Token", ram |-> ram]

\* auth_guard(req): [ret, msg, ram]
auth_guard(ram, t, hdr) ==
    IF ram.s_session_token[1] = 0
    THEN [ret |-> "ESP_FAIL", msg |-> "No active session", ram |-> ram]
    ELSE IF SessionTimedOut(t, ram.s_last_activity_time)
    THEN [ret |-> "ESP_FAIL", msg |-> "Session expired",
          ram |-> [ram EXCEPT !.s_session_token[1] = 0]]
    ELSE IF GetCookieHdr(hdr).err # "ESP_OK"
    THEN [ret |-> "ESP_FAIL", msg |-> "Missing Cookie Header", ram |-> ram]
    ELSE IF StrStr(GetCookieHdr(hdr).buf, CStr(ram.s_session_token))
    THEN [ret |-> "ESP_OK", msg |-> "",
          ram |-> [ram EXCEPT !.s_last_activity_time = t]]
    ELSE [ret |-> "ESP_FAIL", msg |-> "Invalid Token", ram |-> ram]

\* POST /login bodies: what httpd_req_recv and cJSON make of them
LoginBodies ==
    {[kind |-> "recv_timeout", pw |-> <<>>], [kind |-> "recv_closed", pw |-> <<>>],
     [kind |-> "bad_json", pw |-> <<>>], [kind |-> "no_password", pw |-> <<>>]}
    \cup { [kind |-> "password", pw |-> p] : p \in Passwords }

\* login_post_handler(req): [ret, status, cookie, ram, flash]
\* (status 0: no response was sent)
login_post_handler(ram, fl, t, body, rnd, rdOutcome, wrOutcome) ==
    LET same == [ram |-> ram, flash |-> fl, cookie |-> <<>>]
    IN  CASE body.kind = "recv_timeout" ->
               same @@ [ret |-> "ESP_FAIL", status |-> 408]
          [] body.kind = "recv_closed" ->
               same @@ [ret |-> "ESP_FAIL", status |-> 0]
          [] body.kind = "bad_json" ->
               same @@ [ret |-> "ESP_FAIL", status |-> 500]
          [] body.kind = "no_password" ->
               same @@ [ret |-> "ESP_FAIL", status |-> 400]
          [] OTHER ->
               IF body.pw = StorageGetMasterPassword(fl, rdOutcome)
               THEN LET g == generate_new_session(ram, fl, t, rnd, wrOutcome)
                    IN  [ret |-> "ESP_OK", status |-> 200,
                         cookie |-> AccessTokenEq \o CStr(g.ram.s_session_token),
                         ram |-> g.ram, flash |-> g.flash]
               ELSE same @@ [ret |-> "ESP_OK", status |-> 401]

\* auth_manager_init(server): the RAM statics afterwards
auth_manager_init(ram, fl, t, rdOutcome) ==
    LET r == StorageGetSessionToken(fl, ram.s_session_token,
                                    SESSION_TOKEN_LEN + 1, rdOutcome)
    IN  IF r.err = "ESP_OK"
        THEN IF Len(CStr(r.buf)) > 0
             THEN [s_session_token |-> r.buf, s_last_activity_time |-> t]
             ELSE [ram EXCEPT !.s_session_token = r.buf]
        ELSE ram

(***************************************************************************)
(* Session harness: the public interface of auth_manager (auth_manager.h)  *)
(* driven by a server that calls auth_manager_init once per boot and then  *)
(* serves POST /login and guarded requests, with time passing and reboots. *)
(***************************************************************************)
FlashAuth0 ==
    { [nvsHealth |-> "good", ssid |-> NoStr, pass |-> NoStr,
       master |-> Str(ProvisionedPass), token |-> NoStr, bootPtr |-> "factory",
       slot |-> [bytes |-> 0, valid |-> FALSE]] }

InitAuth ==
    /\ flash \in FlashAuth0
    /\ now = T0
    /\ auth = AuthRam0
    /\ main = [Main0 EXCEPT !.pc = "idle"]
    /\ wifi = Wifi0
    /\ srv = [Srv0 EXCEPT !.up = TRUE]
    /\ ota = Ota0
    /\ obs = Obs0
    /\ boots = 1
    /\ ticks = 0

\* the server calls auth_manager_init(server): restore the session, register /login
AuthManagerInit ==
    /\ "/login" \notin srv.routes
    /\ \E rd \in NvsReadOutcomes :
         /\ auth' = auth_manager_init(auth, flash, now, rd)
         /\ obs' = [obs EXCEPT !.last = [NoOp EXCEPT !.op = "init", !.io = rd],
                               !.used = FALSE]
    /\ srv' = [srv EXCEPT !.routes = @ \cup {"/login"}]
    /\ UNCHANGED <<flash, now, boots, ticks, progVars>>

\* the observation a login leaves
LoginObs(r, wr) ==
    [obs EXCEPT
       !.last = [NoOp EXCEPT !.op = "login", !.ret = r.ret, !.status = r.status,
                             !.io = wr, !.first = ~obs.used],
       !.issued = IF r.status = 200
                  THEN Str(SubSeq(r.cookie, Len(AccessTokenEq) + 1, Len(r.cookie)))
                  ELSE @,
       !.expired = IF r.status = 200 THEN NoStr ELSE @,
       !.used = TRUE]

\* the platform results a login can meet: a body that carries a password
\* reaches the store; a password that matches the stored master password
\* reaches the random generator and the store write
LoginIo(body) ==
    IF body.kind = "password"
    THEN UNION { IF rd = "ok" /\ body.pw = StorageGetMasterPassword(flash, rd)
                 THEN [rnd : RndStreams, rd : {rd}, wr : NvsWriteOutcomes]
                 ELSE [rnd : {TokenRndA}, rd : {rd}, wr : {"ok"}] :
                 rd \in NvsReadOutcomes }
    ELSE [rnd : {TokenRndA}, rd : {"ok"}, wr : {"ok"}]

\* a client sends POST /login
LoginPost ==
    /\ "/login" \in srv.routes
    /\ \E body \in LoginBodies :
         \E io \in LoginIo(body) :
           \E r \in {login_post_handler(auth, flash, now, body, io.rnd, io.rd, io.wr)} :
               /\ auth' = r.ram
               /\ flash' = r.flash
               /\ obs' = LoginObs(r, IF r.status = 200 THEN io.wr ELSE "none")
    /\ UNCHANGED <<now, srv, boots, ticks, progVars>>

\* a handler calls auth_guard(req) for a request with the named Cookie header
AuthGuard ==
    /\ "/login" \in srv.routes
    /\ \E h \in CookieNames :
         \E r \in {auth_guard(auth, now, CookieHdr(h))} :
             /\ auth' = r.ram
             /\ obs' = [obs EXCEPT
                   !.last = [NoOp EXCEPT
                               !.op = "guard", !.ret = r.ret,
                               !.status = IF r.ret = "ESP_OK" THEN 0 ELSE 401,
                               !.hdr = h, !.first = ~obs.used],
                   !.expired = IF r.msg = "Session expired"
                               THEN Str(CStr(auth.s_session_token)) ELSE @,
                   !.used = TRUE]
    /\ UNCHANGED <<flash, now, srv, boots, ticks, progVars>>

\* time passes
Tick ==
    /\ ticks < MaxTicks
    /\ \E d \in TickDeltas : now' = TimeAdd(now, d)
    /\ ticks' = ticks + 1
    /\ obs' = [obs EXCEPT !.last = NoOp]
    /\ UNCHANGED <<flash, auth, srv, boots, progVars>>

\* restart or power cycle: RAM statics and the timer start from zero, the
\* store is kept
RebootAuth ==
    /\ boots < MaxBoots
    /\ boots' = boots + 1
    /\ auth' = AuthRam0
    /\ now' = T0
    /\ srv' = [Srv0 EXCEPT !.up = TRUE]
    /\ obs' = [obs EXCEPT !.last = NoOp, !.used = FALSE]
    /\ UNCHANGED <<flash, ticks, progVars>>

NextAuth == AuthManagerInit \/ LoginPost \/ AuthGuard \/ Tick \/ RebootAuth

SpecAuth == InitAuth /\ [][NextAuth]_vars


(***************************************************************************)
(* Session properties, checked under SpecAuth.  In a step, unprimed        *)
(* variables are the state a call found and primed variables the state it  *)
(* left; obs'.last says which call the step was.                           *)
(***************************************************************************)
\* the request carries a Cookie header whose value contains tok
Carries(hdr, tok) == hdr.has /\ StrStr(hdr.val, tok)

\* now - s_last_activity_time, in the state a call found
Elapsed == TimeSub(now, auth.s_last_activity_time)

\* C7: guard soundness.  Whenever auth_guard returns ESP_OK, in the state it
\* found the RAM token is non-empty, now - last_activity is at most 30 days,
\* the request has a Cookie header and the RAM token is a substring of its
\* value; the token is still the same afterwards.
C7_GuardSound ==
    [][ (obs'.last.op = "guard" /\ obs'.last.ret = "ESP_OK") =>
          /\ auth.s_session_token[1] # 0
          /\ TimeLE(Elapsed, ThirtyDays)
          /\ Carries(CookieHdr(obs'.last.hdr), CStr(auth.s_session_token))
          /\ auth'.s_session_token = auth.s_session_token ]_vars

\* a guard call authorized a request that carried the token among other
\* cookies, in a later boot, 30 days - 1 us after the session was restored
C7_Witness ==
    /\ obs.last.op = "guard" /\ obs.last.ret = "ESP_OK"
    /\ obs.last.hdr = "amongB"
    /\ boots > 1
    /\ now = TimeSub(ThirtyDays, OneUs)

\* C8: the session window slides.  A guard call whose request carries the
\* current token 30 days - 1 us after last_activity returns ESP_OK and sets
\* last_activity to the current time; one 30 days + 1 us after last_activity
\* returns ESP_FAIL.
C8_SlidingWindow ==
    [][ ( /\ obs'.last.op = "guard"
          /\ auth.s_session_token[1] # 0
          /\ Carries(CookieHdr(obs'.last.hdr), CStr(auth.s_session_token)) ) =>
          /\ Elapsed = TimeSub(ThirtyDays, OneUs) =>
               /\ obs'.last.ret = "ESP_OK"
               /\ auth'.s_last_activity_time = now
          /\ Elapsed = TimeAdd(ThirtyDays, OneUs) =>
               obs'.last.ret = "ESP_FAIL" ]_vars

\* C9: whenever a session is active (the one RAM token is non-empty) the
\* token in the Settings Store equals the RAM token.
C9_RamStoreAgree ==
    auth.s_session_token[1] # 0 =>
        /\ flash.token.has
        /\ flash.token.val = CStr(auth.s_session_token)

\* C10: session round trip.  After a login issued token t and the device
\* rebooted, auth_manager_init (its store read succeeding) leaves t in RAM
\* with last_activity = now, storage_get_session_token yields t, and the
\* first guarded request of that boot whose cookie carries t, within 30 days
\* of boot, returns ESP_OK.
C10_RoundTrip ==
    [][ /\ ( /\ obs'.last.op = "init" /\ obs'.last.io = "ok"
             /\ boots > 1 /\ obs.issued.has ) =>
               /\ CStr(auth'.s_session_token) = obs.issued.val
               /\ auth'.s_last_activity_time = now
               /\ CStr(StorageGetSessionToken(flash, AuthRam0.s_session_token,
                                              SESSION_TOKEN_LEN + 1, "ok").buf)
                    = obs.issued.val
        /\ ( /\ obs'.last.op = "guard" /\ obs'.last.first
             /\ boots > 1 /\ obs.issued.has
             /\ Carries(CookieHdr(obs'.last.hdr), obs.issued.val)
             /\ TimeLE(TimeSub(now, T0), ThirtyDays) ) =>
               obs'.last.ret = "ESP_OK" ]_vars


(***************************************************************************)
(* storage_manager.c: mount and WiFi credentials                           *)
(***************************************************************************)
\* what nvs_flash_init finds: a mountable store, no free pages, a newer
\* format version, or another fault
NvsHealths == {"good", "no_free_pages", "new_version", "fault"}

\* CONFIG_WIFI_SSID / CONFIG_WIFI_PASSWORD ("dflt" / "dfpw"), and the
\* credentials a client submits ("home" / "pw")
CONFIG_WIFI_SSID == <<100, 102, 108, 116>>
CONFIG_WIFI_PASSWORD == <<100, 102, 112, 119>>
SsidHome == <<104, 111, 109, 101>>
PassHome == <<112, 119>>

\* nvs_flash_erase(): every key of the store is gone
NvsErased(fl) ==
    [fl EXCEPT !.nvsHealth = "good", !.ssid = NoStr, !.pass = NoStr,
               !.master = NoStr, !.token = NoStr]

\* storage_init erasing and retrying after any failure of the first mount
storage_init_erase_any(fl, erase, reinit) ==
    IF fl.nvsHealth = "good"
    THEN [err |-> "ESP_OK", flash |-> fl, aborted |-> FALSE,
          mounts |-> 1, erases |-> 0]
    ELSE IF fl.nvsHealth \in {"no_free_pages", "new_version", "fault"}
    THEN IF erase # "ok"
         THEN [err |-> "ESP_FAIL", flash |-> fl, aborted |-> TRUE,
               mounts |-> 1, erases |-> 1]
         ELSE IF reinit = "ok"
         THEN [err |-> "ESP_OK", flash |-> NvsErased(fl), aborted |-> FALSE,
               mounts |-> 2, erases |-> 1]
         ELSE [err |-> "ESP_FAIL",
               flash |-> [NvsErased(fl) EXCEPT !.nvsHealth = "fault"],
               aborted |-> FALSE, mounts |-> 2, erases |-> 1]
    ELSE [err |-> "ESP_FAIL", flash |-> fl, aborted |-> FALSE,
          mounts |-> 1, erases |-> 0]

\* storage_init(): [err, flash, aborted, mounts, erases].  erase / reinit: the
\* results of nvs_flash_erase and of the second nvs_flash_init;
\* ESP_ERROR_CHECK aborts when the erase fails.
storage_init(fl, erase, reinit) ==
    IF fl.nvsHealth = "good"
    THEN [err |-> "ESP_OK", flash |-> fl, aborted |-> FALSE,
          mounts |-> 1, erases |-> 0]
    ELSE IF fl.nvsHealth \in {"no_free_pages", "new_version"}
    THEN IF erase # "ok"
         THEN [err |-> "ESP_FAIL", flash |-> fl, aborted |-> TRUE,
               mounts |-> 1, erases |-> 1]
         ELSE IF reinit = "ok"
         THEN [err |-> "ESP_OK", flash |-> NvsErased(fl), aborted |-> FALSE,
               mounts |-> 2, erases |-> 1]
         ELSE [err |-> "ESP_FAIL",
               flash |-> [NvsErased(fl) EXCEPT !.nvsHealth = "fault"],
               aborted |-> FALSE, mounts |-> 2, erases |-> 1]
    ELSE [err |-> "ESP_FAIL", flash |-> fl, aborted |-> FALSE,
          mounts |-> 1, erases |-> 0]

\* storage_get_wifi_creds(ssid_buf, ssid_len, pass_buf, pass_len):
\* [err, ssid, pass]; the Kconfig defaults stand in when the store cannot be
\* opened or a value cannot be read (absent SSID, value longer than its
\* buffer), an absent password reads as ""
storage_get_wifi_creds(fl, ssid_len, pass_len, outcome) ==
    LET dflt == [err |-> "ESP_OK", ssid |-> CONFIG_WIFI_SSID,
                 pass |-> CONFIG_WIFI_PASSWORD]
    IN  IF outcome = "open_fail" \/ ~fl.ssid.has THEN dflt
        ELSE IF Len(fl.ssid.val) + 1 > ssid_len THEN dflt
        ELSE IF ~fl.pass.has
        THEN [err |-> "ESP_OK", ssid |-> fl.ssid.val, pass |-> <<>>]
        ELSE IF Len(fl.pass.val) + 1 > pass_len THEN dflt
        ELSE [err |-> "ESP_OK", ssid |-> fl.ssid.val, pass |-> fl.pass.val]

\* results of storage_set_wifi_creds' sequence open, set ssid, set pass, commit
WifiWriteOutcomes == {"ok", "open_fail", "ssid_fail", "pass_fail", "commit_fail"}

\* storage_set_wifi_creds(ssid, pass): [err, flash]; each nvs_set_str that
\* returned ESP_OK has stored its value
storage_set_wifi_creds(fl, ssid, pass, outcome) ==
    CASE outcome = "ok" ->
           [err |-> "ESP_OK", flash |-> [fl EXCEPT !.ssid = Str(ssid), !.pass = Str(pass)]]
      [] outcome = "pass_fail" ->
           [err |-> "ESP_FAIL", flash |-> [fl EXCEPT !.ssid = Str(ssid)]]
      [] outcome = "commit_fail" ->
           [err |-> "ESP_FAIL", flash |-> [fl EXCEPT !.ssid = Str(ssid), !.pass = Str(pass)]]
      [] OTHER -> [err |-> "ESP_FAIL", flash |-> fl]

(***************************************************************************)
(* wifi_manager.c                                                          *)
(***************************************************************************)
MAX_STA_RETRIES == 5

\* sizeof(ssid) and sizeof(pass) of wifi_manager_try_connect_sta
SSID_BUF_SIZE == 33
PASS_BUF_SIZE == 65

\* sta_event_handler giving up one disconnect earlier
\* (s_retry_num < MAX_STA_RETRIES - 1)
sta_event_handler_one_less(w, ev, connect) ==
    CASE ev = "STA_START" ->
           IF connect = "ok" THEN [w EXCEPT !.link = "connecting"]
           ELSE [w EXCEPT !.evBits = @ \cup {"FAIL"}]
      [] ev = "STA_DISCONNECTED" ->
           IF w.s_retry_num < MAX_STA_RETRIES - 1
           THEN IF connect = "ok"
                THEN [w EXCEPT !.s_retry_num = @ + 1, !.link = "connecting"]
                ELSE [w EXCEPT !.s_retry_num = @ + 1, !.evBits = @ \cup {"FAIL"}]
           ELSE [w EXCEPT !.evBits = @ \cup {"FAIL"}]
      [] ev = "GOT_IP" ->
           [w EXCEPT !.s_retry_num = 0, !.evBits = @ \cup {"CONNECTED"}]

\* sta_event_handler(arg, event_base, event_id, event_data) on the statics;
\* connect: the result of esp_wifi_connect()
sta_event_handler(w, ev, connect) ==
    CASE ev = "STA_START" ->
           IF connect = "ok" THEN [w EXCEPT !.link = "connecting"]
           ELSE [w EXCEPT !.evBits = @ \cup {"FAIL"}]
      [] ev = "STA_DISCONNECTED" ->
           IF w.s_retry_num < MAX_STA_RETRIES
           THEN IF connect = "ok"
                THEN [w EXCEPT !.s_retry_num = @ + 1, !.link = "connecting"]
                ELSE [w EXCEPT !.s_retry_num = @ + 1, !.evBits = @ \cup {"FAIL"}]
           ELSE [w EXCEPT !.evBits = @ \cup {"FAIL"}]
      [] ev = "GOT_IP" ->
           [w EXCEPT !.s_retry_num = 0, !.evBits = @ \cup {"CONNECTED"}]

\* the call of wifi_manager_init that fails, if any
\* (loop_exists: esp_event_loop_create_default returns ESP_ERR_INVALID_STATE,
\* which is not treated as a failure)
WifiInitFailures ==
    {"none", "loop_exists", "event_group", "netif_init", "event_loop", "wifi_init"}

\* wifi_manager_init(): [err, wifi]
wifi_manager_init(w, failAt) ==
    CASE failAt = "event_group" -> [err |-> "ESP_ERR_NO_MEM", wifi |-> w]
      [] failAt \in {"none", "loop_exists"} ->
           [err |-> "ESP_OK", wifi |-> [w EXCEPT !.evGroup = TRUE]]
      [] OTHER -> [err |-> "ESP_FAIL", wifi |-> [w EXCEPT !.evGroup = TRUE]]

\* the call of wifi_manager_try_connect_sta lines 110-147 that fails, if any
StaBeginFailures ==
    {"none", "netif", "reg_any", "reg_ip", "set_mode", "set_config", "start"}

\* wifi_manager_try_connect_sta, lines 93-149: credentials, netif, the two
\* registrations, mode, config, start: [err, waiting, wifi]
sta_begin(w, fl, rd, failAt) ==
    LET creds == storage_get_wifi_creds(fl, SSID_BUF_SIZE, PASS_BUF_SIZE, rd)
        w1 == [w EXCEPT !.netifSta = TRUE]
        w2 == [w1 EXCEPT !.regAny = TRUE]
        w3 == [w2 EXCEPT !.regIp = TRUE]
        w4 == [w3 EXCEPT !.mode = "STA"]
        w5 == [w4 EXCEPT !.cfgSsid = Str(creds.ssid)]
        w6 == [w5 EXCEPT !.started = TRUE, !.startEv = TRUE]
    IN  CASE creds.err # "ESP_OK" -> [err |-> "ESP_OK", waiting |-> FALSE, wifi |-> w]
          [] failAt = "netif"      -> [err |-> "ESP_FAIL", waiting |-> FALSE, wifi |-> w]
          [] failAt = "reg_any"    -> [err |-> "ESP_FAIL", waiting |-> FALSE, wifi |-> w1]
          [] failAt = "reg_ip"     -> [err |-> "ESP_FAIL", waiting |-> FALSE, wifi |-> w1]
          [] failAt = "set_mode"   -> [err |-> "ESP_FAIL", waiting |-> FALSE, wifi |-> w3]
          [] failAt = "set_config" -> [err |-> "ESP_FAIL", waiting |-> FALSE, wifi |-> w4]
          [] failAt = "start"      -> [err |-> "ESP_FAIL", waiting |-> FALSE, wifi |-> w5]
          [] OTHER                 -> [err |-> "ESP_OK", waiting |-> TRUE, wifi |-> w6]

\* wifi_manager_try_connect_sta, lines 170-188: [out_connected, wifi];
\* esp_wifi_stop takes the station down, its failure is only logged
sta_finish(w, bits, stop) ==
    IF "CONNECTED" \in bits
    THEN [out_connected |-> TRUE, wifi |-> w]
    ELSE IF stop = "ok"
    THEN [out_connected |-> FALSE,
          wifi |-> [w EXCEPT !.started = FALSE, !.link = "idle",
                             !.startEv = FALSE, !.stopCalled = TRUE]]
    ELSE [out_connected |-> FALSE, wifi |-> [w EXCEPT !.stopCalled = TRUE]]

\* the call of wifi_manager_start_ap that fails, if any
StartApFailures == {"none", "netif", "set_mode", "set_config", "start"}

\* wifi_manager_start_ap(): [err, wifi]; WIFI_MODE_AP has no station
wifi_manager_start_ap(w, failAt) ==
    LET w1 == [w EXCEPT !.netifAp = TRUE]
        w2 == [w1 EXCEPT !.mode = "AP", !.link = "idle", !.startEv = FALSE]
    IN  CASE failAt = "netif"      -> [err |-> "ESP_FAIL", wifi |-> w]
          [] failAt = "set_mode"   -> [err |-> "ESP_FAIL", wifi |-> w1]
          [] failAt = "set_config" -> [err |-> "ESP_FAIL", wifi |-> w2]
          [] failAt = "start"      -> [err |-> "ESP_FAIL", wifi |-> w2]
          [] OTHER -> [err |-> "ESP_OK",
                       wifi |-> [w2 EXCEPT !.started = TRUE, !.apUp = TRUE]]

(***************************************************************************)
(* main.c: system_setup                                                    *)
(***************************************************************************)
\* system_setup starting the access point whatever the attempt returned
system_setup_always_ap(is_connected) == TRUE

\* system_setup never starting the access point
system_setup_never_ap(is_connected) == FALSE

\* system_setup lines 73-82: the access point is started when the station
\* attempt did not connect
system_setup_starts_ap(is_connected) == ~is_connected

\* REQUIRE(err == ESP_OK, ...): app_main returns and the device halts
Require(m, err, next) ==
    IF err = "ESP_OK" THEN [m EXCEPT !.pc = next, !.err = "ESP_OK"]
    ELSE [m EXCEPT !.pc = "halted", !.err = err]

\* the call of server_start that fails, if any
ServerStartFailures == {"none", "httpd_start", "reg_ota", "reg_settings"}

\* server_start(): [err, srv]; a failed registration leaves the server running
server_start(sv, failAt) ==
    CASE failAt = "httpd_start" -> [err |-> "ESP_FAIL", srv |-> sv]
      [] failAt = "reg_ota" -> [err |-> "ESP_FAIL", srv |-> [sv EXCEPT !.up = TRUE]]
      [] failAt = "reg_settings" ->
           [err |-> "ESP_FAIL", srv |-> [sv EXCEPT !.up = TRUE, !.routes = {"/ota"}]]
      [] OTHER ->
           [err |-> "ESP_OK",
            srv |-> [sv EXCEPT !.up = TRUE, !.routes = {"/ota", "/settings"}]]


(***************************************************************************)
(* server_manager.c: POST /settings and POST /ota                          *)
(***************************************************************************)
\* sizeof(buf) of settings_post_handler and of ota_post_handler
SETTINGS_BUF_SIZE == 200
OTA_BUF_SIZE == 1024

\* the body {"ssid":"<ssid>","password":"<pass>"}; len: its Content-Length
\* (25 characters around the two values)
SettingsBody(ssid, pass) ==
    [kind |-> "creds", ssid |-> ssid, pass |-> pass,
     len |-> 25 + Len(ssid) + Len(pass)]

\* POST /settings bodies: a Content-Length of sizeof(buf), and what
\* httpd_req_recv and cJSON make of shorter ones
SettingsBodies ==
    {[kind |-> "too_large", ssid |-> <<>>, pass |-> <<>>, len |-> SETTINGS_BUF_SIZE]}
    \cup {[kind |-> k, ssid |-> <<>>, pass |-> <<>>, len |-> 30] :
            k \in {"recv_fail", "bad_json", "not_strings"}}
    \cup {SettingsBody(SsidHome, PassHome)}

\* bodies at the bounds of the credentials: SSIDs of 0, 32 and 33 bytes with
\* passwords of 64 and 65 bytes, and a body of sizeof(buf) bytes
BoundaryBodies ==
    {SettingsBody(Repeat(97, n), Repeat(98, k)) : n \in {0, 32, 33}, k \in {64, 65}}
    \cup {SettingsBody(SsidHome, Repeat(98, SETTINGS_BUF_SIZE - 29))}

\* settings_post_handler calling trigger_restart before it looks at the result
\* of storage_set_wifi_creds and before it responds
settings_post_handler_restart_early(fl, body, wr) ==
    CASE body.len >= SETTINGS_BUF_SIZE ->
           [ret |-> "ESP_FAIL", status |-> 500, calls |-> <<"resp">>,
            flash |-> fl, restart |-> FALSE]
      [] body.kind = "recv_fail" ->
           [ret |-> "ESP_FAIL", status |-> 0, calls |-> <<>>,
            flash |-> fl, restart |-> FALSE]
      [] body.kind \in {"bad_json", "not_strings"} ->
           [ret |-> "ESP_FAIL", status |-> 500, calls |-> <<"resp">>,
            flash |-> fl, restart |-> FALSE]
      [] OTHER ->
           LET w == storage_set_wifi_creds(fl, body.ssid, body.pass, wr)
           IN  IF w.err = "ESP_OK"
               THEN [ret |-> "ESP_OK", status |-> 200,
                     calls |-> <<"restart", "resp">>, flash |-> w.flash,
                     restart |-> TRUE]
               ELSE [ret |-> "ESP_FAIL", status |-> 500,
                     calls |-> <<"restart", "resp">>, flash |-> w.flash,
                     restart |-> TRUE]

\* settings_post_handler(req): [ret, status, calls, flash, restart]
\* (status 0: no response was sent; restart: trigger_restart was called;
\* calls: the responses sent and the calls of trigger_restart, in the order
\* the handler made them)
settings_post_handler(fl, body, wr) ==
    CASE body.len >= SETTINGS_BUF_SIZE ->
           [ret |-> "ESP_FAIL", status |-> 500, calls |-> <<"resp">>,
            flash |-> fl, restart |-> FALSE]
      [] body.kind = "recv_fail" ->
           [ret |-> "ESP_FAIL", status |-> 0, calls |-> <<>>,
            flash |-> fl, restart |-> FALSE]
      [] body.kind = "bad_json" ->
           [ret |-> "ESP_FAIL", status |-> 500, calls |-> <<"resp">>,
            flash |-> fl, restart |-> FALSE]
      [] body.kind = "not_strings" ->
           [ret |-> "ESP_FAIL", status |-> 500, calls |-> <<"resp">>,
            flash |-> fl, restart |-> FALSE]
      [] OTHER ->
           LET w == storage_set_wifi_creds(fl, body.ssid, body.pass, wr)
           IN  IF w.err = "ESP_OK"
               THEN [ret |-> "ESP_OK", status |-> 200, calls |-> <<"resp", "restart">>,
                     flash |-> w.flash,
                     restart |-> TRUE]
               ELSE [ret |-> "ESP_FAIL", status |-> 500, calls |-> <<"resp">>,
                     flash |-> w.flash,
                     restart |-> FALSE]

\* esp_ota_get_next_update_partition(NULL) when running from factory
NextUpdatePartition(running) == IF running = "factory" THEN "ota_0" ELSE "NULL"

\* POST /ota uploads: Content-Length (top * 2^31 + len), and whether the
\* body is a valid image
OtaUploads ==
    {[top |-> 0, len |-> 0, good |-> FALSE], [top |-> 0, len |-> 1025, good |-> TRUE],
     [top |-> 0, len |-> 1025, good |-> FALSE]}

\* the uploads, and a request whose Content-Length is 2^31 + 1025
OtaUploadsWide == OtaUploads \cup {[top |-> 1, len |-> 1025, good |-> FALSE]}

\* int remaining = req->content_len: the conversion of the size_t value
\* top * 2^31 + low to a 32-bit int
IntOfSize(top, low) == IF top = 0 THEN low ELSE low - 2147483647 - 1

\* results of esp_ota_begin: erased and opened; failed before erasing; failed
\* after erasing
OtaBeginOutcomes == {"ok", "fail", "fail_erased"}

ErasedSlot == [bytes |-> 0, valid |-> FALSE]

\* ota_post_handler lines 88-121: [done, ret, status, calls, flash, ota, ends]
ota_begin(o, fl, running, up, begin, passed) ==
    LET fail(f) == [done |-> TRUE, ret |-> "ESP_FAIL", status |-> 500,
                    calls |-> <<"resp">>,
                    flash |-> f, ota |-> o, ends |-> 0]
    IN  IF NextUpdatePartition(running) = "NULL" THEN fail(fl)
        ELSE IF begin = "fail" THEN fail(fl)
        ELSE IF begin = "fail_erased" THEN fail([fl EXCEPT !.slot = ErasedSlot])
        ELSE [done |-> FALSE, ret |-> "pending", status |-> 0, calls |-> <<>>,
              ends |-> 0,
              flash |-> [fl EXCEPT !.slot = ErasedSlot],
              ota |-> [pc |-> "loop", top |-> up.top, len |-> up.len,
                       remaining |-> IntOfSize(up.top, up.len),
                       good |-> up.good, handle |-> TRUE, passed |-> passed,
                       bootPre |-> fl.bootPtr, peer |-> "sending"]]

Min(a, b) == IF a < b THEN a ELSE b

\* results of httpd_req_recv(req, buf, MIN(remaining, sizeof(buf))):
\* HTTPD_SOCK_ERR_TIMEOUT, another socket error, 0, or a byte count.
\* A client that sends delivers bytes, is late (timeout) or has its
\* connection fail; a silent client only causes timeouts; after the client
\* closed the connection every read returns 0.
RecvResults(remaining, peer) ==
    CASE peer = "silent" -> {[kind |-> "timeout", n |-> 0]}
      [] peer = "closed" -> {[kind |-> "data", n |-> 0]}
      [] OTHER ->
           {[kind |-> "timeout", n |-> 0], [kind |-> "error", n |-> 0]}
           \cup {[kind |-> "data", n |-> k] :
                   k \in {j \in {1000, Min(remaining, OTA_BUF_SIZE)} :
                            j <= Min(remaining, OTA_BUF_SIZE)}}

\* the stream loop returning on a socket error without esp_ota_end (line 140)
ota_loop_sock_leak(o, fl, recv, write) ==
    IF recv.kind = "timeout"
    THEN [done |-> FALSE, ret |-> "pending", status |-> 0, calls |-> <<>>,
          flash |-> fl, ota |-> o,
          ends |-> 0]
    ELSE IF recv.kind = "error"
    THEN [done |-> TRUE, ret |-> "ESP_FAIL", status |-> 0, calls |-> <<>>,
          flash |-> fl,
          ota |-> o, ends |-> 0]
    ELSE IF recv.n > 0
    THEN IF write # "ok"
         THEN [done |-> TRUE, ret |-> "ESP_FAIL", status |-> 500, calls |-> <<"resp">>,
               flash |-> fl,
               ota |-> [o EXCEPT !.handle = FALSE], ends |-> 1]
         ELSE [done |-> FALSE, ret |-> "pending", status |-> 0, calls |-> <<>>,
               flash |-> [fl EXCEPT !.slot.bytes = @ + recv.n],
               ota |-> [o EXCEPT !.remaining = @ - recv.n], ends |-> 0]
    ELSE [done |-> FALSE, ret |-> "pending", status |-> 0, calls |-> <<>>,
          flash |-> fl, ota |-> o,
          ends |-> 0]

\* the stream loop returning on a flash write failure without esp_ota_end
\* (line 151)
ota_loop_write_leak(o, fl, recv, write) ==
    IF recv.kind = "timeout"
    THEN [done |-> FALSE, ret |-> "pending", status |-> 0, calls |-> <<>>,
          flash |-> fl, ota |-> o,
          ends |-> 0]
    ELSE IF recv.kind = "error"
    THEN [done |-> TRUE, ret |-> "ESP_FAIL", status |-> 0, calls |-> <<>>,
          flash |-> fl,
          ota |-> [o EXCEPT !.handle = FALSE], ends |-> 1]
    ELSE IF recv.n > 0
    THEN IF write # "ok"
         THEN [done |-> TRUE, ret |-> "ESP_FAIL", status |-> 500, calls |-> <<"resp">>,
               flash |-> fl,
               ota |-> o, ends |-> 0]
         ELSE [done |-> FALSE, ret |-> "pending", status |-> 0, calls |-> <<>>,
               flash |-> [fl EXCEPT !.slot.bytes = @ + recv.n],
               ota |-> [o EXCEPT !.remaining = @ - recv.n], ends |-> 0]
    ELSE [done |-> FALSE, ret |-> "pending", status |-> 0, calls |-> <<>>,
          flash |-> fl, ota |-> o,
          ends |-> 0]

\* one pass of the stream loop, lines 127-157:
\* [done, ret, status, calls, flash, ota, ends]
ota_loop(o, fl, recv, write) ==
    IF recv.kind = "timeout"
    THEN [done |-> FALSE, ret |-> "pending", status |-> 0, calls |-> <<>>,
          flash |-> fl, ota |-> o,
          ends |-> 0]
    ELSE IF recv.kind = "error"
    THEN [done |-> TRUE, ret |-> "ESP_FAIL", status |-> 0, calls |-> <<>>,
          flash |-> fl,
          ota |-> [o EXCEPT !.handle = FALSE], ends |-> 1]
    ELSE IF recv.n > 0
    THEN IF write # "ok"
         THEN [done |-> TRUE, ret |-> "ESP_FAIL", status |-> 500, calls |-> <<"resp">>,
               flash |-> fl,
               ota |-> [o EXCEPT !.handle = FALSE], ends |-> 1]
         ELSE [done |-> FALSE, ret |-> "pending", status |-> 0, calls |-> <<>>,
               flash |-> [fl EXCEPT !.slot.bytes = @ + recv.n],
               ota |-> [o EXCEPT !.remaining = @ - recv.n], ends |-> 0]
    ELSE [done |-> FALSE, ret |-> "pending", status |-> 0, calls |-> <<>>,
          flash |-> fl, ota |-> o,
          ends |-> 0]

\* ota_post_handler lines 159-183 with esp_ota_set_boot_partition called
\* before the result of esp_ota_end is looked at
ota_finish_early_boot(o, fl, endRes, bootRes) ==
    LET endOk == endRes = "ok" /\ o.good /\ o.top = 0 /\ fl.slot.bytes = o.len
        f1 == [fl EXCEPT !.slot.valid = endOk, !.bootPtr = "ota_0"]
        o1 == [o EXCEPT !.handle = FALSE]
    IN  IF ~endOk \/ bootRes # "ok"
        THEN [done |-> TRUE, ret |-> "ESP_FAIL", status |-> 500, calls |-> <<"resp">>,
              flash |-> f1,
              ota |-> o1, restart |-> FALSE, ends |-> 1]
        ELSE [done |-> TRUE, ret |-> "ESP_OK", status |-> 200, calls |-> <<"resp", "restart">>,
              flash |-> f1,
              ota |-> o1, restart |-> TRUE, ends |-> 1]

\* ota_post_handler lines 159-183:
\* [done, ret, status, calls, flash, ota, restart, ends];
\* esp_ota_end validates the image that was written
ota_finish(o, fl, endRes, bootRes) ==
    LET endOk == endRes = "ok" /\ o.good /\ o.top = 0 /\ fl.slot.bytes = o.len
        f1 == [fl EXCEPT !.slot.valid = endOk]
        o1 == [o EXCEPT !.handle = FALSE]
    IN  IF ~endOk
        THEN [done |-> TRUE, ret |-> "ESP_FAIL", status |-> 500, calls |-> <<"resp">>,
              flash |-> f1,
              ota |-> o1, restart |-> FALSE, ends |-> 1]
        ELSE IF bootRes # "ok"
        THEN [done |-> TRUE, ret |-> "ESP_FAIL", status |-> 500, calls |-> <<"resp">>,
              flash |-> f1,
              ota |-> o1, restart |-> FALSE, ends |-> 1]
        ELSE [done |-> TRUE, ret |-> "ESP_OK", status |-> 200,
              calls |-> <<"resp", "restart">>,
              flash |-> [f1 EXCEPT !.bootPtr = "ota_0"],
              ota |-> o1, restart |-> TRUE, ends |-> 1]


(***************************************************************************)
(* The device: boot, the main task running system_setup, the event loop    *)
(* task delivering radio events, the HTTP server task running one handler  *)
(* at a time, the restart task, and power loss.                            *)
(***************************************************************************)
\* the variables only the session authority changes
sessVars == <<now, auth, ticks>>

Flash0 ==
    {[nvsHealth |-> h, ssid |-> c[1], pass |-> c[2], master |-> NoStr,
      token |-> NoStr, bootPtr |-> "factory", slot |-> ErasedSlot] :
        h \in NvsHealths, c \in {<<NoStr, NoStr>>, <<Str(SsidHome), Str(PassHome)>>}}

Init ==
    /\ flash \in Flash0
    /\ now = T0
    /\ auth = AuthRam0
    /\ main = Main0
    /\ wifi = Wifi0
    /\ srv = Srv0
    /\ ota = Ota0
    /\ obs = Obs0
    /\ boots = 1
    /\ ticks = 0

\* the bootloader starts the image the boot pointer names, or the factory
\* image when that slot holds no valid image
BootPartition(fl) ==
    IF fl.bootPtr = "ota_0" /\ fl.slot.valid THEN "ota_0" ELSE "factory"

\* the device starts again with the flash content fl: statics are
\* re-initialised, tasks and the open OTA handle are gone
Reboot(fl) ==
    /\ boots < MaxBoots
    /\ boots' = boots + 1
    /\ flash' = fl
    /\ main' = [Main0 EXCEPT !.running = BootPartition(fl),
                             !.pc = IF BootPartition(fl) = "factory"
                                    THEN "storage_init" ELSE "new_firmware"]
    /\ wifi' = Wifi0
    /\ srv' = [Srv0 EXCEPT !.requests = srv.requests]
    /\ ota' = Ota0
    /\ auth' = AuthRam0
    /\ now' = T0
    /\ obs' = [obs EXCEPT !.last = NoOp, !.used = FALSE, !.timeouts = 0]
    /\ UNCHANGED ticks

Quiet == obs' = [obs EXCEPT !.last = NoOp]

\* system_setup step 1: storage_init
StorageInit ==
    /\ main.pc = "storage_init"
    /\ \E erase \in {"ok", "fail"}, reinit \in {"ok", "fail"} :
         \E r \in {storage_init(flash, erase, reinit)} :
            IF r.aborted
            THEN Reboot(r.flash)
            ELSE /\ flash' = r.flash
                 /\ main' = Require(main, r.err, "wifi_init")
                 /\ obs' = [obs EXCEPT
                       !.last = [NoOp EXCEPT !.op = "storage_init", !.ret = r.err,
                                             !.mounts = r.mounts,
                                             !.erases = r.erases]]
                 /\ UNCHANGED <<wifi, srv, ota, boots, sessVars>>

\* system_setup step 2: wifi_manager_init
WifiManagerInit ==
    /\ main.pc = "wifi_init"
    /\ \E failAt \in WifiInitFailures :
         \E r \in {wifi_manager_init(wifi, failAt)} :
            /\ wifi' = r.wifi
            /\ main' = Require(main, r.err, "sta_begin")
    /\ Quiet
    /\ UNCHANGED <<flash, srv, ota, boots, sessVars>>

\* wifi_manager_try_connect_sta up to esp_wifi_start
StaBegin ==
    /\ main.pc = "sta_begin"
    /\ \E rd \in NvsReadOutcomes, failAt \in StaBeginFailures :
         \E r \in {sta_begin(wifi, flash, rd, failAt)} :
            /\ wifi' = r.wifi
            /\ main' = IF r.waiting THEN [main EXCEPT !.pc = "sta_wait"]
                       ELSE Require(main, r.err,
                                    IF system_setup_starts_ap(FALSE)
                                    THEN "start_ap" ELSE "server_start")
    /\ Quiet
    /\ UNCHANGED <<flash, srv, ota, boots, sessVars>>

\* xEventGroupWaitBits returns: a bit is set, or the 15 s have passed
StaWait ==
    /\ main.pc = "sta_wait"
    /\ main' = [main EXCEPT !.pc = "sta_unreg_ip", !.bits = wifi.evBits]
    /\ Quiet
    /\ UNCHANGED <<flash, wifi, srv, ota, boots, sessVars>>

\* esp_event_handler_instance_unregister(IP_EVENT, ..., instance_got_ip): the
\* instance is the one registered at line 125, so the call succeeds
StaUnregIp ==
    /\ main.pc = "sta_unreg_ip"
    /\ wifi' = [wifi EXCEPT !.regIp = FALSE]
    /\ main' = [main EXCEPT !.pc = "sta_unreg_any"]
    /\ Quiet
    /\ UNCHANGED <<flash, srv, ota, boots, sessVars>>

\* esp_event_handler_instance_unregister(WIFI_EVENT, ..., instance_any_id):
\* the instance is the one registered at line 121, so the call succeeds
StaUnregAny ==
    /\ main.pc = "sta_unreg_any"
    /\ wifi' = [wifi EXCEPT !.regAny = FALSE, !.discs = 0]
    /\ main' = [main EXCEPT !.pc = "sta_finish"]
    /\ Quiet
    /\ UNCHANGED <<flash, srv, ota, boots, sessVars>>

\* wifi_manager_try_connect_sta returns; system_setup chooses its next step
StaFinish ==
    /\ main.pc = "sta_finish"
    /\ \E stop \in {"ok", "fail"} :
       \E r \in {sta_finish(wifi, main.bits, stop)} :
         /\ wifi' = r.wifi
         /\ main' = [main EXCEPT
                       !.is_connected = r.out_connected,
                       !.pc = IF system_setup_starts_ap(r.out_connected)
                              THEN "start_ap" ELSE "server_start"]
    /\ Quiet
    /\ UNCHANGED <<flash, srv, ota, boots, sessVars>>

\* system_setup: wifi_manager_start_ap
StartAp ==
    /\ main.pc = "start_ap"
    /\ \E failAt \in StartApFailures :
         \E r \in {wifi_manager_start_ap(wifi, failAt)} :
            /\ wifi' = r.wifi
            /\ main' = Require(main, r.err, "server_start")
    /\ Quiet
    /\ UNCHANGED <<flash, srv, ota, boots, sessVars>>

\* system_setup step 4: server_start; then app_main enters system_loop
ServerStart ==
    /\ main.pc = "server_start"
    /\ \E failAt \in ServerStartFailures :
         \E r \in {server_start(srv, failAt)} :
            /\ srv' = r.srv
            /\ main' = Require(main, r.err, "idle")
    /\ Quiet
    /\ UNCHANGED <<flash, wifi, ota, boots, sessVars>>

MainThread ==
    \/ StorageInit \/ WifiManagerInit \/ StaBegin \/ StaWait \/ StaUnregIp
    \/ StaUnregAny \/ StaFinish \/ StartAp \/ ServerStart

\* the event loop delivers event ev to sta_event_handler if the instance
\* that covers it is registered
Deliver(w, ev, connect) ==
    IF (ev = "GOT_IP" /\ w.regIp) \/ (ev # "GOT_IP" /\ w.regAny)
    THEN sta_event_handler(w, ev, connect)
    ELSE w

\* WIFI_EVENT_STA_START after esp_wifi_start
EvStaStart ==
    /\ wifi.started /\ wifi.startEv
    /\ \E connect \in {"ok", "fail"} :
         wifi' = Deliver([wifi EXCEPT !.startEv = FALSE], "STA_START", connect)
    /\ Quiet
    /\ UNCHANGED <<flash, main, srv, ota, boots, sessVars>>

\* WIFI_EVENT_STA_DISCONNECTED: a connection attempt failed or the link dropped
EvStaDisconnected ==
    /\ wifi.started /\ wifi.mode = "STA" /\ wifi.link \in {"connecting", "up"}
    /\ \E connect \in {"ok", "fail"} :
         wifi' = Deliver([wifi EXCEPT !.link = "idle",
                                      !.discs = IF wifi.regAny THEN @ + 1 ELSE @],
                         "STA_DISCONNECTED", connect)
    /\ Quiet
    /\ UNCHANGED <<flash, main, srv, ota, boots, sessVars>>

\* IP_EVENT_STA_GOT_IP: the station is connected and has an address
EvGotIp ==
    /\ wifi.started /\ wifi.mode = "STA" /\ wifi.link = "connecting"
    /\ wifi' = Deliver([wifi EXCEPT !.link = "up",
                                    !.discs = IF wifi.regIp THEN 0 ELSE @],
                       "GOT_IP", "ok")
    /\ Quiet
    /\ UNCHANGED <<flash, main, srv, ota, boots, sessVars>>

RadioEvent == EvStaStart \/ EvStaDisconnected \/ EvGotIp

\* power is lost and comes back
PowerLoss == Reboot(flash)

\* the boot sequence alone, with the main task always getting to run
NextBoot == MainThread \/ RadioEvent \/ PowerLoss

SpecBoot == Init /\ [][NextBoot]_vars /\ WF_vars(MainThread)


\* the Cookie headers requests to /settings and /ota arrive with
ReqCookies == {"none", "exactA"}

\* the observation a handler step leaves: its result so far, and whether the
\* request would have passed auth_guard in the state it arrived in
ReqObs(op, r, h, passed) ==
    [obs EXCEPT !.last = [NoOp EXCEPT !.op = op, !.ret = r.ret, !.status = r.status,
                                      !.calls = r.calls,
                                      !.hdr = h, !.passed = passed]]

\* the observation a step of ota_post_handler leaves
OtaObs(r, h, passed) ==
    [ReqObs("ota", r, h, passed) EXCEPT !.last.ends = r.ends]

\* trigger_restart(): one more restart_task
TriggerRestart(sv, restart) ==
    IF restart THEN [sv EXCEPT !.restartTasks = @ + 1] ELSE sv

\* the server task is free to take a request for route
Accepts(route) ==
    /\ srv.up /\ route \in srv.routes
    /\ ota.pc = "idle"
    /\ srv.requests < MaxRequests

\* whether body reaches storage_set_wifi_creds
ReachesStore(body) == body.kind = "creds" /\ body.len < SETTINGS_BUF_SIZE

\* a client sends POST /settings with one of bodies
SettingsPostWith(bodies) ==
    /\ Accepts("/settings")
    /\ \E h \in ReqCookies, body \in bodies :
         \E wr \in IF ReachesStore(body) THEN WifiWriteOutcomes ELSE {"none"} :
           \E r \in {settings_post_handler(flash, body, wr)} :
              /\ flash' = r.flash
              /\ srv' = [TriggerRestart(srv, r.restart) EXCEPT !.requests = @ + 1]
              /\ obs' = [ReqObs("settings", r, h,
                                auth_guard(auth, now, CookieHdr(h)).ret = "ESP_OK")
                           EXCEPT !.last.io = IF wr \in {"ok", "none"} THEN wr
                                              ELSE "fail",
                                  !.last.kind = IF body.kind = "creds"
                                                THEN "creds" ELSE "other",
                                  !.last.ssid = body.ssid, !.last.pass = body.pass]
    /\ UNCHANGED <<main, wifi, ota, boots, sessVars>>

SettingsPost == SettingsPostWith(SettingsBodies)

\* a client sends POST /ota with one of uploads: the handler runs up to its
\* stream loop
OtaPostWith(uploads) ==
    /\ Accepts("/ota")
    /\ \E h \in ReqCookies, up \in uploads, begin \in OtaBeginOutcomes :
         \E r \in {ota_begin(ota, flash, main.running, up, begin,
                             auth_guard(auth, now, CookieHdr(h)).ret = "ESP_OK")} :
            /\ flash' = r.flash
            /\ ota' = r.ota
            /\ obs' = [OtaObs(r, h, r.ota.passed) EXCEPT !.timeouts = 0]
            /\ srv' = [srv EXCEPT !.requests = @ + 1,
                                  !.otaHandles = IF r.done THEN @ ELSE @ + 1]
    /\ UNCHANGED <<main, wifi, boots, sessVars>>

OtaPost == OtaPostWith(OtaUploads)

\* the client of the upload being handled stops sending, or closes its
\* connection, before every byte was delivered
ClientStops ==
    /\ ota.pc = "loop" /\ ota.remaining > 0 /\ ota.peer = "sending"
    /\ \E p \in {"silent", "closed"} : ota' = [ota EXCEPT !.peer = p]
    /\ Quiet
    /\ UNCHANGED <<flash, main, wifi, srv, boots, sessVars>>

\* one pass of the stream loop of ota_post_handler; counted: whether the
\* result of the read is observed (obs.last.io) and the consecutive timeouts
\* are counted (obs.timeouts)
OtaLoopStep(counted) ==
    /\ ota.pc = "loop" /\ ota.remaining > 0
    /\ \E recv \in RecvResults(ota.remaining, ota.peer) :
         \E write \in IF recv.n > 0 THEN {"ok", "fail"} ELSE {"ok"} :
           \E r \in {ota_loop(ota, flash, recv, write)} :
              /\ flash' = r.flash
              /\ ota' = IF r.done THEN Ota0 ELSE r.ota
              /\ obs' = [OtaObs(r, "none", ota.passed) EXCEPT
                            !.last.io = IF counted THEN recv.kind ELSE "none",
                            !.timeouts = IF r.done \/ ~counted THEN 0
                                         ELSE IF recv.kind = "timeout"
                                         THEN Min(@ + 1, MaxTimeouts)
                                         ELSE IF recv.n > 0 THEN 0 ELSE @]
              /\ srv' = [srv EXCEPT !.otaHandles = @ - r.ends]
    /\ UNCHANGED <<main, wifi, boots, sessVars>>

OtaLoop == OtaLoopStep(FALSE)

\* the stream loop is over: ota_post_handler finalizes and returns
OtaFinish ==
    /\ ota.pc = "loop" /\ ota.remaining <= 0
    /\ \E endRes \in {"ok", "fail"}, bootRes \in {"ok", "fail"} :
         \E r \in {ota_finish(ota, flash, endRes, bootRes)} :
            /\ flash' = r.flash
            /\ srv' = [TriggerRestart(srv, r.restart) EXCEPT
                         !.otaOk = @ \/ r.ret = "ESP_OK",
                         !.otaHandles = @ - r.ends]
            /\ obs' = [OtaObs(r, "none", ota.passed) EXCEPT !.timeouts = 0]
    /\ ota' = Ota0
    /\ UNCHANGED <<main, wifi, boots, sessVars>>

\* restart_task: esp_restart() after the 2 s delay
RestartTask ==
    /\ srv.restartTasks > 0
    /\ Reboot(flash)

Next ==
    \/ MainThread \/ RadioEvent
    \/ SettingsPost \/ OtaPost \/ OtaLoop \/ OtaFinish
    \/ RestartTask \/ PowerLoss

Spec == Init /\ [][Next]_vars

\* the flash of a device whose store is mounted and empty
FlashEmpty ==
    [nvsHealth |-> "good", ssid |-> NoStr, pass |-> NoStr, master |-> NoStr,
     token |-> NoStr, bootPtr |-> "factory", slot |-> ErasedSlot]

\* the radio after a boot whose station attempt timed out and whose access
\* point was started
WifiServingAp(fl) ==
    LET w1 == wifi_manager_init(Wifi0, "none").wifi
        w2 == sta_begin(w1, fl, "ok", "none").wifi
        w3 == [w2 EXCEPT !.regIp = FALSE, !.regAny = FALSE]
        w4 == sta_finish(w3, {}, "ok").wifi
    IN  wifi_manager_start_ap(w4, "none").wifi

\* the device after a boot from flash fl that reached system_loop on the
\* recovery access point: the state the server's handlers start from
InitServing(fl) ==
    /\ flash = fl
    /\ now = T0
    /\ auth = AuthRam0
    /\ main = [Main0 EXCEPT !.pc = "idle"]
    /\ wifi = WifiServingAp(fl)
    /\ srv = server_start(Srv0, "none").srv
    /\ ota = Ota0
    /\ obs = Obs0
    /\ boots = 1
    /\ ticks = 0

(***************************************************************************)
(* POST /settings with bodies at the bounds of the credentials, on a       *)
(* device whose store is empty or holds credentials ("old" / "oldpw").     *)
(***************************************************************************)
SsidOld == <<111, 108, 100>>
PassOld == <<111, 108, 100, 112, 119>>

FlashStored == [FlashEmpty EXCEPT !.ssid = Str(SsidOld), !.pass = Str(PassOld)]

InitSettings == \E fl \in {FlashEmpty, FlashStored} : InitServing(fl)

SettingsPostBounds == SettingsPostWith(BoundaryBodies)

NextSettings == SettingsPostBounds

SpecSettings == InitSettings /\ [][NextSettings]_vars

(***************************************************************************)
(* The upload stream of POST /ota, with the client's behaviour and the     *)
(* consecutive read timeouts observed, and Content-Lengths up to 2^32 - 1; *)
(* the server task always gets to run.                                     *)
(***************************************************************************)
InitOta == InitServing(FlashEmpty)

OtaLoopWatched == OtaLoopStep(TRUE)

OtaPostWide == OtaPostWith(OtaUploadsWide)

NextOta == OtaPostWide \/ ClientStops \/ OtaLoopWatched \/ OtaFinish

SpecOta ==
    InitOta /\ [][NextOta]_vars /\ WF_vars(OtaLoopWatched) /\ WF_vars(OtaFinish)


(***************************************************************************)
(* Properties of the device, checked under Spec (C5 under SpecBoot)        *)
(***************************************************************************)
\* a step of the POST /settings or POST /ota handler produced the next state
HandlerStep == obs'.last.op \in {"settings", "ota"}

\* C1: POST /settings and POST /ota are guarded.  A request to either route
\* that does not pass auth_guard is answered 401 and has no effect: the flash
\* (credentials, slot, boot pointer) is unchanged, no update transaction is
\* open and no restart task is created.
C1_Guarded ==
    [][ (HandlerStep /\ ~obs'.last.passed) =>
          /\ obs'.last.status = 401
          /\ flash' = flash
          /\ ~ota'.handle
          /\ srv'.restartTasks = srv.restartTasks ]_vars

\* C2: when ota_post_handler returns an error the boot pointer is what it
\* was when the handler was entered; the boot pointer changes only in the
\* step that ends the handler with success, after the stream loop delivered
\* every byte (remaining = 0, bytes written = Content-Length) and esp_ota_end
\* accepted the image.
C2_BootSlotOnError ==
    [][ /\ (obs'.last.op = "ota" /\ obs'.last.ret = "ESP_FAIL") =>
              flash'.bootPtr = (IF ota.pc = "idle" THEN flash.bootPtr
                                ELSE ota.bootPre)
        /\ flash'.bootPtr # flash.bootPtr =>
              /\ ota.pc = "loop" /\ ota.remaining = 0
              /\ flash.slot.bytes = ota.len
              /\ obs'.last.op = "ota" /\ obs'.last.ret = "ESP_OK"
              /\ flash'.slot.valid ]_vars

\* ota_post_handler returned an error after part of an image was written,
\* and the boot pointer still names the factory slot
C2_Witness ==
    /\ obs.last.op = "ota" /\ obs.last.ret = "ESP_FAIL"
    /\ flash.slot.bytes > 0
    /\ flash.bootPtr = "factory"

\* C3: no partial write is bootable.  In every reachable state the boot
\* pointer names the factory slot or a slot whose image was completely
\* written and accepted by esp_ota_end.
C3_NoPartialBootable ==
    flash.bootPtr = "ota_0" => flash.slot.valid

\* C4: when ota_post_handler returns success the boot pointer names the
\* written slot, the slot holds the validated image and a restart task was
\* created; and the boot that follows a successful update runs from that
\* slot.
C4_SuccessBootsNewSlot ==
    [][ /\ (obs'.last.op = "ota" /\ obs'.last.ret = "ESP_OK") =>
              /\ flash'.bootPtr = "ota_0" /\ flash'.slot.valid
              /\ srv'.restartTasks = srv.restartTasks + 1
        /\ (boots' = boots + 1 /\ srv.otaOk) => main'.running = "ota_0" ]_vars

\* NetworkState of the orchestrator
StationConnected == main.is_connected
RecoveryAP == wifi.apUp

\* system_setup returned ESP_OK: the server runs with its routes
Serving == main.pc = "idle" /\ srv.up /\ srv.routes = {"/ota", "/settings"}

\* C5: the startup sequence falls back to the recovery AP.  Whenever the
\* station attempt returns not-connected without an error, the next step of
\* system_setup is wifi_manager_start_ap; the server is started only with the
\* network in StationConnected or RecoveryAP; and every boot reaches the
\* serving state with the network in StationConnected or RecoveryAP, unless
\* one of its steps returned an error.
C5_Fallback ==
    /\ [][ (main.pc = "sta_finish" /\ boots' = boots /\ main'.pc # "sta_finish"
            /\ ~main'.is_connected) => main'.pc = "start_ap" ]_vars
    /\ [](main.pc \in {"server_start", "idle"} => (StationConnected \/ RecoveryAP))
    /\ (main.pc = "storage_init") ~>
          \/ Serving /\ (StationConnected \/ RecoveryAP)
          \/ main.pc = "halted" /\ main.err # "ESP_OK"

\* the station attempt ended with FAILED and the device serves on the
\* recovery AP
C5_Witness ==
    /\ Serving /\ RecoveryAP /\ ~StationConnected
    /\ "FAIL" \in main.bits

C11_AllRoutes ==
    main.pc = "idle" =>
        /\ srv.up
        /\ {"/login", "/settings", "/ota"} \subseteq srv.routes


C19_EndedOnce ==
    [][ obs'.last.op = "ota" =>
          /\ (ota.pc = "loop" /\ ota'.pc = "idle") =>
                /\ obs'.last.ends = 1
                /\ srv'.otaHandles = srv.otaHandles - 1
          /\ ota'.pc = "loop" =>
                /\ obs'.last.ends = 0
                /\ srv'.otaHandles = 1 ]_vars

\* ota_post_handler returned on a socket error after part of the image was
\* written, having called esp_ota_end once
C19_Witness ==
    /\ obs.last.op = "ota" /\ obs.last.io = "error"
    /\ obs.last.ret = "ESP_FAIL" /\ obs.last.ends = 1
    /\ flash.slot.bytes > 0 /\ srv.otaHandles = 0


(***************************************************************************)
(* Properties of the upload stream, checked under SpecOta                  *)
(***************************************************************************)
\* C17: when the client closes its connection or stops sending before
\* Content-Length bytes were delivered, ota_post_handler returns an error
\* (having ended the transaction): neither reads that return 0 forever nor
\* reads that time out forever keep the stream loop running.
C17_UploadTerminates ==
    (ota.pc = "loop" /\ ota.peer \in {"silent", "closed"}) ~>
        (ota.pc = "idle" /\ obs.last.op = "ota" /\ obs.last.ret = "ESP_FAIL")

\* C18: in the stream loop the 5th consecutive read timeout makes
\* ota_post_handler return an error with the transaction ended, and a
\* non-empty read that follows 1 to 4 consecutive timeouts resets the count
\* and leaves the handler in its loop.
C18_FifthTimeoutAborts ==
    [][ (ota.pc = "loop" /\ obs'.last.op = "ota") =>
          /\ (obs'.last.io = "timeout" /\ obs.timeouts = 4) =>
                /\ ota'.pc = "idle"
                /\ obs'.last.ret = "ESP_FAIL"
                /\ obs'.last.ends = 1
          /\ ( /\ obs'.last.io = "data" /\ obs.timeouts \in 1..4
               /\ flash'.slot.bytes > flash.slot.bytes ) =>
                /\ ota'.pc = "loop"
                /\ obs'.timeouts = 0 ]_vars


(***************************************************************************)
(* Properties of POST /settings, checked under SpecSettings                *)
(***************************************************************************)
\* what a later storage_get_wifi_creds returns from flash fl
CredsRead(fl) ==
    LET r == storage_get_wifi_creds(fl, SSID_BUF_SIZE, PASS_BUF_SIZE, "ok")
    IN  <<r.ssid, r.pass>>

\* the SSID and password of a request are within the bounds 1..32 and 0..64
InBounds(ssid, pass) ==
    Len(ssid) \in 1..(SSID_BUF_SIZE - 1) /\ Len(pass) <= PASS_BUF_SIZE - 1

\* C13: storage_set_wifi_creds commits the pair atomically.  When it returns
\* an error (open, write of the SSID, write of the password or commit
\* failed) a later storage_get_wifi_creds returns what it returned before the
\* call; when it returns ESP_OK for a pair within the bounds, a later read
\* returns that pair.
C13_AtomicPair ==
    [][ (obs'.last.op = "settings" /\ obs'.last.io # "none") =>
          /\ obs'.last.ret # "ESP_OK" => CredsRead(flash') = CredsRead(flash)
          /\ (obs'.last.ret = "ESP_OK"
              /\ InBounds(obs'.last.ssid, obs'.last.pass)) =>
                CredsRead(flash') = <<obs'.last.ssid, obs'.last.pass>> ]_vars

\* C16: POST /settings enforces the bounds of the credentials.  A body with
\* an SSID of 1 to 32 bytes and a password of at most 64 bytes is accepted
\* when the store write succeeds (200, both values stored, one restart task);
\* a body with an SSID of 0 or more than 32 bytes, or a password of more than
\* 64 bytes, is rejected with the store unchanged and no restart task.
C16_CredentialBounds ==
    [][ (obs'.last.op = "settings" /\ obs'.last.kind = "creds") =>
          /\ (InBounds(obs'.last.ssid, obs'.last.pass) /\ obs'.last.io = "ok") =>
                /\ obs'.last.status = 200
                /\ flash'.ssid = Str(obs'.last.ssid)
                /\ flash'.pass = Str(obs'.last.pass)
                /\ srv'.restartTasks = srv.restartTasks + 1
          /\ ~InBounds(obs'.last.ssid, obs'.last.pass) =>
                /\ obs'.last.status # 200
                /\ flash' = flash
                /\ srv'.restartTasks = srv.restartTasks ]_vars


(***************************************************************************)
(* Properties of the boot sequence: storage_init, the credentials of the   *)
(* station attempt, and the retries of sta_event_handler                   *)
(***************************************************************************)
\* C14: self-healing init.  storage_init erases the store and mounts again,
\* once, exactly when the first mount reports no free pages or a new format
\* version; any other failure of the first mount and a failure of the second
\* mount are returned as errors with no (further) erase; after a healed init
\* the store is empty and mounts, and a second storage_init returns ESP_OK
\* without erasing.
C14_SelfHealing ==
    [][ obs'.last.op = "storage_init" =>
          LET healing == flash.nvsHealth \in {"no_free_pages", "new_version"}
          IN  /\ obs'.last.erases = (IF healing THEN 1 ELSE 0)
              /\ obs'.last.mounts = (IF healing THEN 2 ELSE 1)
              /\ flash.nvsHealth = "good" =>
                    (obs'.last.ret = "ESP_OK" /\ flash' = flash)
              /\ flash.nvsHealth = "fault" =>
                    (obs'.last.ret # "ESP_OK" /\ flash' = flash)
              /\ (healing /\ obs'.last.ret = "ESP_OK") =>
                    /\ flash'.nvsHealth = "good"
                    /\ ~flash'.ssid.has /\ ~flash'.pass.has
                    /\ ~flash'.master.has /\ ~flash'.token.has
                    /\ \A e \in {"ok", "fail"}, r \in {"ok", "fail"} :
                          storage_init(flash', e, r) =
                             [err |-> "ESP_OK", flash |-> flash', aborted |-> FALSE,
                              mounts |-> 1, erases |-> 0] ]_vars

\* storage_init returned ESP_OK after one erase and a second mount, and the
\* store is empty
C14_Witness ==
    /\ obs.last.op = "storage_init" /\ obs.last.ret = "ESP_OK"
    /\ obs.last.erases = 1 /\ obs.last.mounts = 2
    /\ ~flash.ssid.has /\ flash.nvsHealth = "good"

\* C15: with no SSID in the store, storage_get_wifi_creds fails and
\* wifi_manager_try_connect_sta returns not-connected at once, leaving the
\* radio as it was: no station netif, no registration, no mode, no
\* configuration, not started.
C15_NoCredsNoRadio ==
    [][ ( /\ main.pc = "sta_begin" /\ main'.pc # "sta_begin" /\ boots' = boots
          /\ ~flash.ssid.has ) =>
          /\ storage_get_wifi_creds(flash, SSID_BUF_SIZE, PASS_BUF_SIZE,
                                    "ok").err # "ESP_OK"
          /\ wifi' = wifi
          /\ main'.pc = "start_ap" /\ ~main'.is_connected ]_vars

\* sta_event_handler received a STA_DISCONNECTED event in this step
DisconnectStep == wifi'.discs = wifi.discs + 1

\* sta_event_handler received the GOT_IP event in this step
GotIpStep == wifi.regIp /\ wifi.link = "connecting" /\ wifi'.link = "up"

StaReturns ==
    /\ boots' = boots
    /\ main.pc \in {"sta_begin", "sta_finish"}
    /\ main'.pc \notin {"sta_begin", "sta_wait", "sta_finish"}

\* C21: on every return of wifi_manager_try_connect_sta (connected, timeout,
\* FAILED, and the error returns of esp_wifi_set_mode, esp_wifi_set_config
\* and esp_wifi_start) both handler instances the call registered have been
\* unregistered: no instance of a finished call remains registered.
C21_Unsubscribed ==
    [][ StaReturns => (~wifi'.regAny /\ ~wifi'.regIp) ]_vars

C23_ExpiredStaysInvalid ==
    [][ ( /\ obs.expired.has
          /\ obs'.last.op = "guard" /\ obs'.last.ret = "ESP_OK" ) =>
            CStr(auth.s_session_token) # obs.expired.val ]_vars

(***************************************************************************)
(* Properties of the length accounting of the upload stream, checked       *)
(* under SpecOta                                                           *)
(***************************************************************************)
\* ota_post_handler leaves its stream loop and finalizes in this step
FinalizeStep ==
    /\ ota.pc = "loop" /\ ota'.pc = "idle"
    /\ obs'.last.op = "ota" /\ obs'.last.io = "none"

\* C24: ota_post_handler returns success only if the bytes written into the
\* slot equal Content-Length exactly.  The remaining counter is never
\* negative; each pass of the loop reads, writes and subtracts at most
\* min(remaining, 1024) bytes; the handler reaches its final esp_ota_end
\* only with remaining = 0.
C24_ExactLength ==
    /\ [](ota.pc = "loop" => ota.remaining >= 0)
    /\ [][ (ota.pc = "loop" /\ obs'.last.op = "ota") =>
             /\ flash'.slot.bytes - flash.slot.bytes
                   <= Min(ota.remaining, OTA_BUF_SIZE)
             /\ ota'.pc = "loop" =>
                   ota'.remaining
                     = ota.remaining - (flash'.slot.bytes - flash.slot.bytes)
             /\ FinalizeStep => ota.remaining = 0
             /\ obs'.last.ret = "ESP_OK" =>
                   (ota.top = 0 /\ flash.slot.bytes = ota.len) ]_vars

\* the request carries a token other than the one the latest login issued,
\* and not that one
CarriesOnlyOlder(hdr) ==
    /\ obs.issued.has
    /\ ~Carries(hdr, obs.issued.val)
    /\ \E t \in {TokenA, TokenB} : t # obs.issued.val /\ Carries(hdr, t)

\* C25: a new login replaces the single session.  After a login issued a
\* token, auth_guard rejects every request whose cookie carries only an
\* earlier token; and a login with a wrong password leaves the RAM token,
\* last_activity and the stored token as they were.
C25_NewLoginReplaces ==
    [][ /\ ( /\ obs'.last.op = "guard"
             /\ CarriesOnlyOlder(CookieHdr(obs'.last.hdr)) ) =>
               obs'.last.ret = "ESP_FAIL"
        /\ (obs'.last.op = "login" /\ obs'.last.status = 401) =>
               (auth' = auth /\ flash' = flash) ]_vars

(***************************************************************************)
(* wifi_manager_try_connect_sta called more than once: the public          *)
(* interface of wifi_manager (wifi_manager.h) driven by a caller that,     *)
(* after wifi_manager_init, calls the function again whenever it returned  *)
(* ESP_OK, with the radio delivering its events.                           *)
(***************************************************************************)
InitSta ==
    /\ flash = [FlashEmpty EXCEPT !.ssid = Str(SsidHome), !.pass = Str(PassHome)]
    /\ now = T0
    /\ auth = AuthRam0
    /\ main = [Main0 EXCEPT !.pc = "sta_begin"]
    /\ wifi = wifi_manager_init(Wifi0, "none").wifi
    /\ srv = Srv0
    /\ ota = Ota0
    /\ obs = Obs0
    /\ boots = 1
    /\ ticks = 0

\* the steps of one call of wifi_manager_try_connect_sta
StaCall == StaBegin \/ StaWait \/ StaUnregIp \/ StaUnregAny \/ StaFinish

\* the caller calls wifi_manager_try_connect_sta again: *out_connected = false
\* (line 93), and bits is a local of the new call
StaAgain ==
    /\ main.pc \in {"start_ap", "server_start"}
    /\ main' = [main EXCEPT !.pc = "sta_begin", !.is_connected = FALSE,
                            !.bits = {}]
    /\ Quiet
    /\ UNCHANGED <<flash, wifi, srv, ota, boots, sessVars>>

NextSta == StaCall \/ StaAgain \/ RadioEvent

SpecSta == InitSta /\ [][NextSta]_vars

\* C26: each call of wifi_manager_try_connect_sta decides its result from the
\* radio events of that call only.  When a call starts its wait (it has just
\* started the radio) s_retry_num is 0 and neither WIFI_CONNECTED_BIT nor
\* WIFI_FAIL_BIT is set, also in a second call that follows a failed or a
\* successful first call.
C26_FreshWait ==
    [][ (main.pc = "sta_begin" /\ main'.pc = "sta_wait") =>
          (wifi'.s_retry_num = 0 /\ wifi'.evBits = {}) ]_vars

=============================================================================
